---- MODULE Spec2Model ----
(***************************************************************************)
(* A model of the yorkie PushPull synchronization engine                   *)
(* (yorkie/packs/packs.go), of the webhook-gated authorization check       *)
(* (auth package: VerifyAccess, withExponentialBackoff, shouldRetry) and   *)
(* of the change identifier (pkg/document/change/id.go).                   *)
(*                                                                         *)
(* One document is modelled.  The storage layer, the coordinator and the   *)
(* helpers pushChanges / pullPack are not part of the sources at hand;     *)
(* they are modelled from their documented contracts.                      *)
(***************************************************************************)
EXTENDS Integers, Sequences, FiniteSets, TLC

\* ------------------------------------------------------------------ bounds
MaxClientSeq == 2
MaxServerSeq == 2

\* Configuration: the server sequence gap from which a pull answers with a snapshot.
SnapshotThreshold == 2

\* Two clients (actors) of the document; two call slots, each holding one
\* PushPull call and the replays of its request pack.
Clients == {1, 2}
Procs == {1, 2}

\* time.InitialActorID: the reserved "no actor" identifier, smaller than any client's.
InitialActorID == 0

VARIABLES
  dbServerSeq,     \* stored DocInfo.serverSeq
  dbChanges,       \* persisted changes of the document, in persistence order
  dbClients,       \* stored ClientInfo of each client: status and checkpoint for the document
  dbSynced,        \* stored SyncedSeq of each client for the document
  call,            \* the PushPull calls in flight: one record per call slot
  snapshotLock,    \* coordinator lock snapshot-<documentKey>: TRUE while held
  lastMin,         \* minSyncedTicket returned by the latest PushPull of the document
  sentServerSeq,   \* for each client, the largest serverSeq it sent in a request checkpoint
  authCache,       \* be.AuthWebhookCache: fingerprint -> cached response and expiry
  now,             \* the clock the cache's TTLs are measured on
  maxRetries,      \* cfg.AuthWebhookMaxRetries
  auth,            \* the VerifyAccess call in progress
  nVerify,         \* number of VerifyAccess calls started
  cachedBy,        \* for each fingerprint, the request of the call that stored its entry
  id,              \* a change.ID: the receiver of Next and SyncLamport
  otherLamport,    \* the argument of the latest SyncLamport
  syncedID,        \* the ID the latest SyncLamport returned
  waitRetries,     \* the retry index of a run of retriable webhook attempts
  maxWaitInterval, \* cfg.ParseAuthWebhookMaxWaitInterval(), in nanoseconds
  waits            \* the wait inserted after the latest attempt and the one before

ppVars == <<dbServerSeq, dbChanges, dbClients, dbSynced, call, snapshotLock,
            lastMin, sentServerSeq>>

authVars == <<authCache, now, maxRetries, auth, nVerify, cachedBy>>

idVars == <<id, otherLamport, syncedID>>

waitVars == <<waitRetries, maxWaitInterval, waits>>

vars == <<ppVars, authVars, idVars, waitVars>>

\* ---------------------------------------------------------- data model
Max(a, b) == IF a >= b THEN a ELSE b

Checkpoint(cs, ss) == [clientSeq |-> cs, serverSeq |-> ss]
InitialCheckpoint == Checkpoint(0, 0)
NoCheckpoint == Checkpoint(-1, -1)

Ticket(l, a) == [lamport |-> l, actor |-> a]
InitialTicket == Ticket(0, InitialActorID)
NoTicket == Ticket(-1, -1)

\* Total order of time tickets: lamport first, then actor.
TicketLeq(a, b) ==
  \/ a.lamport < b.lamport
  \/ a.lamport = b.lamport /\ a.actor <= b.actor

\* change.ID as it is persisted: (clientSeq, lamport, actorID, serverSeq).
ChangeID(cs, l, a, ss) == [clientSeq |-> cs, lamport |-> l, actor |-> a, serverSeq |-> ss]

\* The change lists a request pack may carry: no change, one change or two
\* distinct changes, contiguous or with a gap, in order or reordered.
ChangeLists ==
  {l \in UNION {[1..n -> 1..MaxClientSeq] : n \in 0..2} :
     \A i, j \in 1..Len(l) : i # j => l[i] # l[j]}

NoRequest == [checkpoint |-> NoCheckpoint, changes |-> <<>>]
NoResponse == [checkpoint |-> NoCheckpoint, kind |-> "none", from |-> 0, to |-> 0,
               minSyncedTicket |-> NoTicket]
NoSynced == [serverSeq |-> -1, ticket |-> NoTicket]

\* A call slot.  pc is the position of the call in PushPull, tail the position
\* of its asynchronous tail; checkpoint is the in-memory checkpoint of the
\* caller's ClientInfo and docServerSeq the in-memory DocInfo.serverSeq.
\* exit is the step at which the tail ended without the lock and unlocks the
\* number of Unlock calls it made.
\* replayOf (the response checkpoint of the call whose pack is sent again) and
\* superseded (the client has sent a newer pack since) record the history of
\* the slot.
IdleCall ==
  [pc |-> "idle", client |-> 0, request |-> NoRequest,
   checkpoint |-> NoCheckpoint,
   initialServerSeq |-> 0, docServerSeq |-> 0,
   pushedCP |-> NoCheckpoint, pushedChanges |-> <<>>,
   response |-> NoResponse, error |-> "none", created |-> FALSE,
   tail |-> "none", published |-> FALSE, snapshot |-> "none",
   replayOf |-> NoCheckpoint, superseded |-> FALSE, steps |-> <<>>,
   exit |-> "none", unlocks |-> 0]

\* ------------------------------------------------- helpers of PushPull
\* pushChanges: walks the pack's changes in order.  A change whose clientSeq is
\* not beyond the running checkpoint is skipped; any other is given the next
\* server sequence and appended to the pushed list.  No check is made that the
\* client sequences are contiguous or in order.
RECURSIVE pushLoop(_, _, _, _)
pushLoop(changes, cp, docServerSeq, pushed) ==
  IF changes = <<>>
  THEN [pushedCP |-> cp, docServerSeq |-> docServerSeq, pushedChanges |-> pushed]
  ELSE LET cn == Head(changes) IN
       IF cn.clientSeq > cp.clientSeq
       THEN pushLoop(Tail(changes),
                     Checkpoint(Max(cp.clientSeq, cn.clientSeq), docServerSeq + 1),
                     docServerSeq + 1,
                     Append(pushed, [cn EXCEPT !.serverSeq = docServerSeq + 1]))
       ELSE pushLoop(Tail(changes), cp, docServerSeq, pushed)

pushChanges(clientCheckpoint, reqPack, initialServerSeq) ==
  pushLoop(reqPack.changes,
           Checkpoint(clientCheckpoint.clientSeq, initialServerSeq),
           initialServerSeq, <<>>)

\* pullPack: an incremental response (the changes in
\* (reqPack.checkpoint.serverSeq, initialServerSeq]) when the gap is below the
\* snapshot threshold, a snapshot otherwise; the response checkpoint is
\* (pushedCP.clientSeq, pushedCP.serverSeq) in both.
pullPack(reqPack, pushedCP, initialServerSeq) ==
  IF initialServerSeq - reqPack.checkpoint.serverSeq < SnapshotThreshold
  THEN [checkpoint |-> Checkpoint(pushedCP.clientSeq, pushedCP.serverSeq),
        kind |-> "changes",
        from |-> reqPack.checkpoint.serverSeq, to |-> initialServerSeq,
        minSyncedTicket |-> NoTicket]
  ELSE [checkpoint |-> Checkpoint(pushedCP.clientSeq, pushedCP.serverSeq),
        kind |-> "snapshot",
        from |-> 0, to |-> initialServerSeq,
        minSyncedTicket |-> NoTicket]

\* ------------------------------------------------------ storage layer
\* CreateChangeInfos: a conditional append, keyed by initialServerSeq.
CreateChangeInfosOK(initialServerSeq) == dbServerSeq = initialServerSeq

CreateChangeInfos(docServerSeq, pushedChanges) ==
  /\ dbChanges' = dbChanges \o pushedChanges
  /\ dbServerSeq' = docServerSeq

\* UpdateClientInfoAfterPushPull: persists the client's checkpoint for the document.
UpdateClientInfoAfterPushPull(c, cp) ==
  dbClients' = [dbClients EXCEPT ![c].checkpoint = cp]

\* The ticket of the change persisted at serverSeq, InitialTicket at 0.
TicketAt(serverSeq) ==
  IF serverSeq = 0 \/ serverSeq > Len(dbChanges)
  THEN InitialTicket
  ELSE Ticket(dbChanges[serverSeq].lamport, dbChanges[serverSeq].actor)

\* SyncedSeqs after the caller's record is upserted at serverSeq.
UpsertSyncedSeq(c, serverSeq) ==
  [dbSynced EXCEPT ![c] = [serverSeq |-> serverSeq, ticket |-> TicketAt(serverSeq)]]

\* The minimum SyncedSeq among the attached clients, InitialTicket when there is none.
FindMinSyncedTicket(synced) ==
  LET attached == {d \in Clients : dbClients[d].status = "attached" /\ synced[d] # NoSynced}
  IN IF attached = {}
     THEN InitialTicket
     ELSE synced[CHOOSE d \in attached :
                   \A e \in attached : TicketLeq(synced[d].ticket, synced[e].ticket)].ticket

\* --------------------------------------------------------------- Init
PPInit ==
  /\ dbServerSeq = 0
  /\ dbChanges = <<>>
  /\ dbClients = [c \in Clients |->
                    [status |-> IF c = 1 THEN "attached" ELSE "detached",
                     checkpoint |-> InitialCheckpoint]]
  /\ dbSynced = [c \in Clients |-> NoSynced]
  /\ call = [p \in Procs |-> IdleCall]
  /\ snapshotLock = FALSE
  /\ lastMin = NoTicket
  /\ sentServerSeq = [c \in Clients |-> -1]

\* ------------------------------------------- client attach and removal
AttachDocument(c) ==
  /\ dbClients[c].status = "detached"
  /\ dbClients' = [dbClients EXCEPT ![c].status = "attached"]
  /\ UNCHANGED <<dbServerSeq, dbChanges, dbSynced, call, snapshotLock, lastMin, sentServerSeq>>
  /\ UNCHANGED <<authVars, idVars, waitVars>>

InFlight(p) == call[p].pc \in {"store", "client"}

Ended(p) ==
  /\ call[p].pc \in {"returned", "failed"}
  /\ call[p].tail \in {"none", "skipped", "unlocked"}

RemoveClient(c) ==
  /\ dbClients[c].status = "attached"
  /\ \A p \in Procs : call[p].client = c => Ended(p)
  /\ dbClients' = [dbClients EXCEPT ![c].status = "removed"]
  /\ UNCHANGED <<dbServerSeq, dbChanges, dbSynced, call, snapshotLock, lastMin, sentServerSeq>>
  /\ UNCHANGED <<authVars, idVars, waitVars>>

\* ------------------------------------------------------------ PushPull
\* The new request packs client c may send: the checkpoint is the one the
\* client was last given.  The lamport of a change is its client sequence.
Requests(c) ==
  {[checkpoint |-> dbClients[c].checkpoint,
    changes |-> [i \in 1..Len(l) |-> ChangeID(l[i], l[i], c, 0)]] :
      l \in ChangeLists}

\* Variant of FailedCall that hands the response pack built so far to the
\* caller together with the error.
FailedCallWithResponse(p, error) ==
  [call[p] EXCEPT !.pc = "failed", !.error = error,
                  !.steps = Append(call[p].steps, error)]

\* A call that returned an error: there is no response pack.
FailedCall(p, error) ==
  [IdleCall EXCEPT !.pc = "failed", !.client = call[p].client, !.error = error,
                   !.steps = Append(call[p].steps, error)]

\* The steps of PushPull up to the update of the in-memory checkpoint; each
\* can fail and end the call.
EntrySteps == <<"pushChanges", "pullPack", "UpdateCheckpoint">>

\* Variant of PushPull that filters the pushed changes against the checkpoint
\* of the request pack instead of the stored ClientInfo's.
PushPullFromRequestCheckpoint(p, c, reqPack, replayOf) ==
  /\ dbClients[c].status = "attached"
  /\ dbServerSeq + Len(reqPack.changes) <= MaxServerSeq
  /\ LET initialServerSeq == dbServerSeq
         pushed == pushChanges(reqPack.checkpoint, reqPack, initialServerSeq)
         respPack == pullPack(reqPack, pushed.pushedCP, initialServerSeq)
         entered == [IdleCall EXCEPT
                       !.pc = "store", !.client = c, !.request = reqPack,
                       !.initialServerSeq = initialServerSeq,
                       !.docServerSeq = pushed.docServerSeq,
                       !.pushedCP = pushed.pushedCP,
                       !.pushedChanges = pushed.pushedChanges,
                       !.response = respPack,
                       !.checkpoint = respPack.checkpoint,
                       !.replayOf = replayOf,
                       !.steps = EntrySteps]
         failed(n) == [IdleCall EXCEPT !.pc = "failed", !.client = c,
                                       !.error = EntrySteps[n],
                                       !.steps = SubSeq(EntrySteps, 1, n)]
     IN \E n \in 0..Len(EntrySteps) :
          call' = [q \in Procs |->
                     IF q = p THEN (IF n = 0 THEN entered ELSE failed(n))
                     ELSE IF call[q].client = c /\ replayOf = NoCheckpoint
                          THEN [call[q] EXCEPT !.superseded = TRUE]
                          ELSE call[q]]
  /\ sentServerSeq' = [sentServerSeq EXCEPT ![c] = Max(@, reqPack.checkpoint.serverSeq)]
  /\ UNCHANGED <<dbServerSeq, dbChanges, dbClients, dbSynced, snapshotLock, lastMin>>
  /\ UNCHANGED <<authVars, idVars, waitVars>>

\* Variant of PushPull that takes initialServerSeq from the checkpoint of the
\* request pack instead of the DocInfo.
PushPullFromRequestServerSeq(p, c, reqPack, replayOf) ==
  /\ dbClients[c].status = "attached"
  /\ dbServerSeq + Len(reqPack.changes) <= MaxServerSeq
  /\ LET initialServerSeq == reqPack.checkpoint.serverSeq
         pushed == pushChanges(dbClients[c].checkpoint, reqPack, initialServerSeq)
         respPack == pullPack(reqPack, pushed.pushedCP, initialServerSeq)
         entered == [IdleCall EXCEPT
                       !.pc = "store", !.client = c, !.request = reqPack,
                       !.initialServerSeq = initialServerSeq,
                       !.docServerSeq = pushed.docServerSeq,
                       !.pushedCP = pushed.pushedCP,
                       !.pushedChanges = pushed.pushedChanges,
                       !.response = respPack,
                       !.checkpoint = respPack.checkpoint,
                       !.replayOf = replayOf,
                       !.steps = EntrySteps]
         failed(n) == [IdleCall EXCEPT !.pc = "failed", !.client = c,
                                       !.error = EntrySteps[n],
                                       !.steps = SubSeq(EntrySteps, 1, n)]
     IN \E n \in 0..Len(EntrySteps) :
          call' = [q \in Procs |->
                     IF q = p THEN (IF n = 0 THEN entered ELSE failed(n))
                     ELSE IF call[q].client = c /\ replayOf = NoCheckpoint
                          THEN [call[q] EXCEPT !.superseded = TRUE]
                          ELSE call[q]]
  /\ sentServerSeq' = [sentServerSeq EXCEPT ![c] = Max(@, reqPack.checkpoint.serverSeq)]
  /\ UNCHANGED <<dbServerSeq, dbChanges, dbClients, dbSynced, snapshotLock, lastMin>>
  /\ UNCHANGED <<authVars, idVars, waitVars>>

\* Entry of PushPull with the ClientInfo and DocInfo the caller loaded:
\* initialServerSeq is captured, 01. the changes are pushed (in memory),
\* 02. the response pack is pulled and the in-memory checkpoint of the client
\* is set to the response's.
PushPull(p, c, reqPack, replayOf) ==
  /\ dbClients[c].status = "attached"
  /\ dbServerSeq + Len(reqPack.changes) <= MaxServerSeq
  /\ LET initialServerSeq == dbServerSeq
         pushed == pushChanges(dbClients[c].checkpoint, reqPack, initialServerSeq)
         respPack == pullPack(reqPack, pushed.pushedCP, initialServerSeq)
         entered == [IdleCall EXCEPT
                       !.pc = "store", !.client = c, !.request = reqPack,
                       !.initialServerSeq = initialServerSeq,
                       !.docServerSeq = pushed.docServerSeq,
                       !.pushedCP = pushed.pushedCP,
                       !.pushedChanges = pushed.pushedChanges,
                       !.response = respPack,
                       !.checkpoint = respPack.checkpoint,
                       !.replayOf = replayOf,
                       !.steps = EntrySteps]
         failed(n) == [IdleCall EXCEPT !.pc = "failed", !.client = c,
                                       !.error = EntrySteps[n],
                                       !.steps = SubSeq(EntrySteps, 1, n)]
     IN \E n \in 0..Len(EntrySteps) :
          call' = [q \in Procs |->
                     IF q = p THEN (IF n = 0 THEN entered ELSE failed(n))
                     ELSE IF call[q].client = c /\ replayOf = NoCheckpoint
                          THEN [call[q] EXCEPT !.superseded = TRUE]
                          ELSE call[q]]
  /\ sentServerSeq' = [sentServerSeq EXCEPT ![c] = Max(@, reqPack.checkpoint.serverSeq)]
  /\ UNCHANGED <<dbServerSeq, dbChanges, dbClients, dbSynced, snapshotLock, lastMin>>
  /\ UNCHANGED <<authVars, idVars, waitVars>>

\* A client sends a new request pack.  A call slot is taken in order: slot p
\* only when every slot before it is taken.
Enter(p, c, reqPack) ==
  /\ call[p].pc = "idle"
  /\ \A q \in Procs : q < p => call[q].pc # "idle"
  /\ PushPull(p, c, reqPack, NoCheckpoint)

\* The client of a call that succeeded sends the identical request pack again,
\* having sent no other pack since.
Replay(p) ==
  /\ call[p].pc = "returned"
  /\ Ended(p)
  /\ ~call[p].superseded
  /\ PushPull(p, call[p].client, call[p].request, call[p].response.checkpoint)

\* Variant of Store that keys CreateChangeInfos by the serverSeq the storage
\* holds now instead of the initialServerSeq captured at entry.
StoreUnkeyed(p) ==
  /\ call[p].pc = "store"
  /\ IF Len(call[p].pushedChanges) > 0
     THEN IF CreateChangeInfosOK(dbServerSeq)
          THEN \/ /\ CreateChangeInfos(call[p].docServerSeq, call[p].pushedChanges)
                  /\ call' = [call EXCEPT ![p].pc = "client", ![p].created = TRUE,
                         ![p].steps = Append(call[p].steps, "CreateChangeInfos")]
               \/ /\ call' = [call EXCEPT ![p] = FailedCall(p, "CreateChangeInfos"),
                                           ![p].error = "internal"]
                  /\ UNCHANGED <<dbServerSeq, dbChanges>>
          ELSE /\ call' = [call EXCEPT ![p] = FailedCall(p, "CreateChangeInfos"),
                                       ![p].error = "conflict"]
               /\ UNCHANGED <<dbServerSeq, dbChanges>>
     ELSE /\ call' = [call EXCEPT ![p].pc = "client"]
          /\ UNCHANGED <<dbServerSeq, dbChanges>>
  /\ UNCHANGED <<dbClients, dbSynced, snapshotLock, lastMin, sentServerSeq>>
  /\ UNCHANGED <<authVars, idVars, waitVars>>

\* Variant of Store that calls CreateChangeInfos whether or not changes were
\* pushed.
StoreAlways(p) ==
  /\ call[p].pc = "store"
  /\ IF CreateChangeInfosOK(call[p].initialServerSeq)
     THEN \/ /\ CreateChangeInfos(call[p].docServerSeq, call[p].pushedChanges)
             /\ call' = [call EXCEPT ![p].pc = "client", ![p].created = TRUE,
                    ![p].steps = Append(call[p].steps, "CreateChangeInfos")]
          \/ /\ call' = [call EXCEPT ![p] = FailedCall(p, "CreateChangeInfos"),
                                      ![p].error = "internal"]
             /\ UNCHANGED <<dbServerSeq, dbChanges>>
     ELSE /\ call' = [call EXCEPT ![p] = FailedCall(p, "CreateChangeInfos"),
                                  ![p].error = "conflict"]
          /\ UNCHANGED <<dbServerSeq, dbChanges>>
  /\ UNCHANGED <<dbClients, dbSynced, snapshotLock, lastMin, sentServerSeq>>
  /\ UNCHANGED <<authVars, idVars, waitVars>>

\* 03. store pushed changes and document info, keyed by initialServerSeq.
Store(p) ==
  /\ call[p].pc = "store"
  /\ IF Len(call[p].pushedChanges) > 0
     THEN IF CreateChangeInfosOK(call[p].initialServerSeq)
          THEN \/ /\ CreateChangeInfos(call[p].docServerSeq, call[p].pushedChanges)
                  /\ call' = [call EXCEPT ![p].pc = "client", ![p].created = TRUE,
                         ![p].steps = Append(call[p].steps, "CreateChangeInfos")]
               \/ /\ call' = [call EXCEPT ![p] = FailedCall(p, "CreateChangeInfos"),
                                           ![p].error = "internal"]
                  /\ UNCHANGED <<dbServerSeq, dbChanges>>
          ELSE /\ call' = [call EXCEPT ![p] = FailedCall(p, "CreateChangeInfos"),
                                       ![p].error = "conflict"]
               /\ UNCHANGED <<dbServerSeq, dbChanges>>
     ELSE /\ call' = [call EXCEPT ![p].pc = "client"]
          /\ UNCHANGED <<dbServerSeq, dbChanges>>
  /\ UNCHANGED <<dbClients, dbSynced, snapshotLock, lastMin, sentServerSeq>>
  /\ UNCHANGED <<authVars, idVars, waitVars>>

\* The storage calls of PushPull after CreateChangeInfos.
FinishSteps == <<"UpdateClientInfoAfterPushPull", "UpdateAndFindMinSyncedTicket">>

\* Variant of Finish that attaches the asynchronous tail before
\* UpdateAndFindMinSyncedTicket is called.
FinishTailFirst(p) ==
  /\ call[p].pc = "client"
  /\ \/ /\ call' = [call EXCEPT ![p] = FailedCall(p, "UpdateClientInfoAfterPushPull")]
        /\ UNCHANGED <<dbClients, dbSynced, lastMin>>
     \/ /\ UpdateClientInfoAfterPushPull(call[p].client, call[p].checkpoint)
        /\ call' = [call EXCEPT ![p] =
             [FailedCall(p, "UpdateAndFindMinSyncedTicket") EXCEPT
                !.steps = call[p].steps \o FinishSteps,
                !.tail = IF Len(call[p].request.changes) > 0
                         THEN "start" ELSE "none"]]
        /\ UNCHANGED <<dbSynced, lastMin>>
     \/ /\ UpdateClientInfoAfterPushPull(call[p].client, call[p].checkpoint)
        /\ LET synced == UpsertSyncedSeq(call[p].client,
                                         call[p].request.checkpoint.serverSeq)
               minSyncedTicket == FindMinSyncedTicket(synced)
           IN /\ dbSynced' = synced
              /\ lastMin' = minSyncedTicket
              /\ call' = [call EXCEPT
                   ![p].pc = "returned",
                   ![p].response.minSyncedTicket = minSyncedTicket,
                   ![p].steps = call[p].steps \o
                                IF Len(call[p].request.changes) > 0
                                THEN <<"UpdateClientInfoAfterPushPull", "AttachGoroutine",
                                       "UpdateAndFindMinSyncedTicket", "return">>
                                ELSE FinishSteps \o <<"return">>,
                   ![p].tail = IF Len(call[p].request.changes) > 0
                               THEN "start" ELSE "none"]
  /\ UNCHANGED <<dbServerSeq, dbChanges, snapshotLock, sentServerSeq>>
  /\ UNCHANGED <<authVars, idVars, waitVars>>

\* Variant of Finish that attaches the asynchronous tail whether or not the
\* request pack has changes.
FinishAlwaysAttach(p) ==
  /\ call[p].pc = "client"
  /\ \/ /\ call' = [call EXCEPT ![p] = FailedCall(p, "UpdateClientInfoAfterPushPull")]
        /\ UNCHANGED <<dbClients, dbSynced, lastMin>>
     \/ /\ UpdateClientInfoAfterPushPull(call[p].client, call[p].checkpoint)
        /\ call' = [call EXCEPT ![p] =
             [FailedCall(p, "UpdateAndFindMinSyncedTicket") EXCEPT
                !.steps = call[p].steps \o FinishSteps]]
        /\ UNCHANGED <<dbSynced, lastMin>>
     \/ /\ UpdateClientInfoAfterPushPull(call[p].client, call[p].checkpoint)
        /\ LET synced == UpsertSyncedSeq(call[p].client,
                                         call[p].request.checkpoint.serverSeq)
               minSyncedTicket == FindMinSyncedTicket(synced)
           IN /\ dbSynced' = synced
              /\ lastMin' = minSyncedTicket
              /\ call' = [call EXCEPT
                   ![p].pc = "returned",
                   ![p].response.minSyncedTicket = minSyncedTicket,
                   ![p].steps = call[p].steps \o FinishSteps \o
                                <<"AttachGoroutine", "return">>,
                   ![p].tail = "start"]
  /\ UNCHANGED <<dbServerSeq, dbChanges, snapshotLock, sentServerSeq>>
  /\ UNCHANGED <<authVars, idVars, waitVars>>

\* Variant of Finish that upserts the SyncedSeq at the serverSeq of the
\* response pack's checkpoint instead of the request pack's.
FinishAtResponseServerSeq(p) ==
  /\ call[p].pc = "client"
  /\ \/ /\ call' = [call EXCEPT ![p] = FailedCall(p, "UpdateClientInfoAfterPushPull")]
        /\ UNCHANGED <<dbClients, dbSynced, lastMin>>
     \/ /\ UpdateClientInfoAfterPushPull(call[p].client, call[p].checkpoint)
        /\ call' = [call EXCEPT ![p] =
             [FailedCall(p, "UpdateAndFindMinSyncedTicket") EXCEPT
                !.steps = call[p].steps \o FinishSteps]]
        /\ UNCHANGED <<dbSynced, lastMin>>
     \/ /\ UpdateClientInfoAfterPushPull(call[p].client, call[p].checkpoint)
        /\ LET synced == UpsertSyncedSeq(call[p].client,
                                         call[p].response.checkpoint.serverSeq)
               minSyncedTicket == FindMinSyncedTicket(synced)
           IN /\ dbSynced' = synced
              /\ lastMin' = minSyncedTicket
              /\ call' = [call EXCEPT
                   ![p].pc = "returned",
                   ![p].response.minSyncedTicket = minSyncedTicket,
                   ![p].steps = call[p].steps \o FinishSteps \o
                                IF Len(call[p].request.changes) > 0
                                THEN <<"AttachGoroutine", "return">>
                                ELSE <<"return">>,
                   ![p].tail = IF Len(call[p].request.changes) > 0
                               THEN "start" ELSE "none"]
  /\ UNCHANGED <<dbServerSeq, dbChanges, snapshotLock, sentServerSeq>>
  /\ UNCHANGED <<authVars, idVars, waitVars>>

\* 03. store the checkpoint of the client, 04. update and find min synced
\* ticket (at the REQUEST's serverSeq), then 05. attach the asynchronous tail
\* when the request has changes, and return the response pack.
Finish(p) ==
  /\ call[p].pc = "client"
  /\ \/ /\ call' = [call EXCEPT ![p] = FailedCall(p, "UpdateClientInfoAfterPushPull")]
        /\ UNCHANGED <<dbClients, dbSynced, lastMin>>
     \/ /\ UpdateClientInfoAfterPushPull(call[p].client, call[p].checkpoint)
        /\ call' = [call EXCEPT ![p] =
             [FailedCall(p, "UpdateAndFindMinSyncedTicket") EXCEPT
                !.steps = call[p].steps \o FinishSteps]]
        /\ UNCHANGED <<dbSynced, lastMin>>
     \/ /\ UpdateClientInfoAfterPushPull(call[p].client, call[p].checkpoint)
        /\ LET synced == UpsertSyncedSeq(call[p].client,
                                         call[p].request.checkpoint.serverSeq)
               minSyncedTicket == FindMinSyncedTicket(synced)
           IN /\ dbSynced' = synced
              /\ lastMin' = minSyncedTicket
              /\ call' = [call EXCEPT
                   ![p].pc = "returned",
                   ![p].response.minSyncedTicket = minSyncedTicket,
                   ![p].steps = call[p].steps \o FinishSteps \o
                                IF Len(call[p].request.changes) > 0
                                THEN <<"AttachGoroutine", "return">>
                                ELSE <<"return">>,
                   ![p].tail = IF Len(call[p].request.changes) > 0
                               THEN "start" ELSE "none"]
  /\ UNCHANGED <<dbServerSeq, dbChanges, snapshotLock, sentServerSeq>>
  /\ UNCHANGED <<authVars, idVars, waitVars>>

\* -------------------------------------------------- asynchronous tail
\* Variant of TailTryLock that goes on whether or not TryLock succeeded.
TailTryLockUnchecked(p) ==
  /\ call[p].tail = "start"
  /\ snapshotLock' = TRUE
  /\ call' = [call EXCEPT ![p].tail = "locked"]
  /\ UNCHANGED <<dbServerSeq, dbChanges, dbClients, dbSynced, lastMin, sentServerSeq>>
  /\ UNCHANGED <<authVars, idVars, waitVars>>

\* The steps of the tail that end it before the lock is held.
TailExits == {"ActorIDFromHex", "NewLocker", "TryLock"}

\* ActorIDFromHex, NewLocker and TryLock: the tail goes on only with the lock.
TailTryLock(p) ==
  /\ call[p].tail = "start"
  /\ \/ /\ ~snapshotLock
        /\ snapshotLock' = TRUE
        /\ call' = [call EXCEPT ![p].tail = "locked"]
     \/ /\ \E exit \in TailExits :
             call' = [call EXCEPT ![p].tail = "skipped", ![p].exit = exit]
        /\ UNCHANGED snapshotLock
  /\ UNCHANGED <<dbServerSeq, dbChanges, dbClients, dbSynced, lastMin, sentServerSeq>>
  /\ UNCHANGED <<authVars, idVars, waitVars>>

\* Variant of TailSnapshot that returns without Unlock when storeSnapshot
\* failed.
TailSnapshotUnlockOnSuccess(p) ==
  /\ call[p].tail = "locked"
  /\ \E ok \in BOOLEAN :
       /\ snapshotLock' = ~ok
       /\ call' = [call EXCEPT ![p].tail = "unlocked", ![p].published = TRUE,
                               ![p].snapshot = IF ok THEN "stored" ELSE "failed",
                               ![p].unlocks = IF ok THEN call[p].unlocks + 1
                                              ELSE call[p].unlocks]
  /\ UNCHANGED <<dbServerSeq, dbChanges, dbClients, dbSynced, lastMin, sentServerSeq>>
  /\ UNCHANGED <<authVars, idVars, waitVars>>

\* Publish the DocumentsChangedEvent, storeSnapshot (its failure is logged
\* only), then the deferred Unlock.
TailSnapshot(p) ==
  /\ call[p].tail = "locked"
  /\ snapshotLock' = FALSE
  /\ \E ok \in BOOLEAN :
       call' = [call EXCEPT ![p].tail = "unlocked", ![p].published = TRUE,
                            ![p].snapshot = IF ok THEN "stored" ELSE "failed",
                            ![p].unlocks = call[p].unlocks + 1]
  /\ UNCHANGED <<dbServerSeq, dbChanges, dbClients, dbSynced, lastMin, sentServerSeq>>
  /\ UNCHANGED <<authVars, idVars, waitVars>>

\* ====================================================================
\* Authorization: VerifyAccess, the webhook cache and the retry loop
\* ====================================================================
MaxMaxRetries == 2
MaxTime == 2
MaxVerify == 2
AuthTTL == 2
UnauthTTL == 1

AuthProcs == {1}
AuthWebhookMethods == {"PushPull", "AttachDocument"}

RequireAuth(method) == method \in AuthWebhookMethods

\* The attributes of a pack: Read without changes, ReadWrite with changes.
AccessAttributes(pack) ==
  <<[key |-> pack.documentKey, verb |-> IF pack.hasChanges THEN "rw" ELSE "r"]>>

Pack(documentKey, hasChanges) == [documentKey |-> documentKey, hasChanges |-> hasChanges]

AccessRequest(token, method, pack) ==
  [token |-> token, method |-> method, attributes |-> AccessAttributes(pack)]

\* A request and requests that differ from it in the verb, the token, the
\* document key or the method, and one of a method that needs no webhook.
AccessRequests ==
  { AccessRequest("t1", "PushPull", Pack("d1", FALSE)),
    AccessRequest("t1", "PushPull", Pack("d1", TRUE)),
    AccessRequest("t2", "PushPull", Pack("d1", FALSE)),
    AccessRequest("t1", "PushPull", Pack("d2", FALSE)),
    AccessRequest("t1", "AttachDocument", Pack("d1", FALSE)),
    AccessRequest("t1", "WatchDocuments", Pack("d1", FALSE)) }

NoAccessRequest == [token |-> "", method |-> "", attributes |-> <<>>]

\* Variant of the fingerprint that leaves the token out.
MarshalWithoutToken(req) ==
  <<"", req.method,
    [i \in 1..Len(req.attributes) |-> <<req.attributes[i].key, req.attributes[i].verb>>]>>

\* json.Marshal of the AuthWebhookRequest: the fields in declaration order,
\* each string quoted, so that the text determines every field.
Marshal(req) ==
  <<req.token, req.method,
    [i \in 1..Len(req.attributes) |-> <<req.attributes[i].key, req.attributes[i].verb>>]>>

CacheKeys == {Marshal(req) : req \in AccessRequests}

NilResp == [allowed |-> FALSE, reason |-> "nil"]
AllowResp == [allowed |-> TRUE, reason |-> ""]
DenyResp == [allowed |-> FALSE, reason |-> "no"]
NoEntry == [resp |-> NilResp, expires |-> -1]

CacheHit(cache, key, t) == cache[key] # NoEntry /\ t < cache[key].expires

CacheAdd(cache, key, resp, ttl, t) ==
  [cache EXCEPT ![key] = [resp |-> resp, expires |-> t + ttl]]

\* Errors.
Err(kind, errno, code, reason) ==
  [kind |-> kind, errno |-> errno, code |-> code, reason |-> reason]
NilErr == Err("nil", "none", 0, "")
ErrUnexpectedStatusCode == Err("ErrUnexpectedStatusCode", "none", 0, "")
ErrNotAllowed(reason) == Err("ErrNotAllowed", "none", 0, reason)
ErrWebhookTimeout(code) == Err("ErrWebhookTimeout", "none", code, "")
UnexpectedStatus(code) == Err("unexpected status code", "none", code, "")
Canceled == Err("canceled", "none", 0, "")

\* What one HTTP POST to the webhook can produce.
Outcome(errno, status, body) == [errno |-> errno, status |-> status, body |-> body]
NoOutcome == Outcome("none", 0, "none")
Outcomes ==
  {Outcome(e, 0, "none") : e \in {"ECONNRESET", "ECONNREFUSED", "notErrno"}} \cup
  {Outcome("none", s, "none") : s \in {400, 429, 500, 502, 503, 504}} \cup
  {Outcome("none", 200, b) : b \in {"allow", "deny", "garbage"}}

\* The closure passed to withExponentialBackoff: status code, error and the
\* captured authResp after one POST.
webhookFn(o, authResp) ==
  IF o.errno # "none"
  THEN [statusCode |-> 0,
        err |-> IF o.errno = "notErrno" THEN Err("transport", "none", 0, "")
                ELSE Err("errno", o.errno, 0, ""),
        authResp |-> authResp]
  ELSE IF o.status # 200
  THEN [statusCode |-> o.status, err |-> ErrUnexpectedStatusCode, authResp |-> authResp]
  ELSE IF o.body = "garbage"
  THEN [statusCode |-> o.status, err |-> Err("parse", "none", 0, ""), authResp |-> NilResp]
  ELSE IF o.body = "deny"
  THEN [statusCode |-> o.status, err |-> ErrNotAllowed(DenyResp.reason), authResp |-> DenyResp]
  ELSE [statusCode |-> o.status, err |-> NilErr, authResp |-> AllowResp]

\* Variant of shouldRetry that also retries 502 Bad Gateway.
shouldRetryWith502(statusCode, err) ==
  IF err.kind = "errno"
  THEN err.errno = "ECONNRESET"
  ELSE statusCode \in {500, 502, 503, 504, 429}

shouldRetry(statusCode, err) ==
  IF err.kind = "errno"
  THEN err.errno = "ECONNRESET"
  ELSE statusCode \in {500, 503, 504, 429}

\* Variant of the loop condition that allows one more iteration.
LoopContinuesOnceMore(retries, max) == retries <= max + 1

\* The loop condition of withExponentialBackoff.
LoopContinues(retries, max) == retries <= max

\* Variant of the caching after the backoff that stores every failure as a
\* denial.
AfterBackoffCachingAll(cache, key, err, authResp, t) ==
  IF err.kind = "nil" THEN CacheAdd(cache, key, authResp, AuthTTL, t)
  ELSE CacheAdd(cache, key, authResp, UnauthTTL, t)

\* The cache after withExponentialBackoff returned err at time t.
AfterBackoff(cache, key, err, authResp, t) ==
  IF err.kind = "ErrNotAllowed" THEN CacheAdd(cache, key, authResp, UnauthTTL, t)
  ELSE IF err.kind = "nil" THEN CacheAdd(cache, key, authResp, AuthTTL, t)
  ELSE cache

IdleAuth ==
  [pc |-> "idle", req |-> NoAccessRequest,
   entry |-> "none", cached |-> NilResp, retries |-> 0, calls |-> 0,
   statusCode |-> 0, last |-> NoOutcome, nRetriable |-> 0,
   authResp |-> NilResp, err |-> NilErr]

\* VerifyAccess returns err after the webhook was tried.
Return(p, err, authResp, calls, last) ==
  /\ authCache' = AfterBackoff(authCache, Marshal(auth[p].req), err, authResp, now)
  /\ cachedBy' = IF authCache' = authCache THEN cachedBy
                 ELSE [cachedBy EXCEPT ![Marshal(auth[p].req)] = auth[p].req]
  /\ auth' = [auth EXCEPT ![p].pc = "done", ![p].err = err, ![p].authResp = authResp,
                          ![p].calls = calls, ![p].last = last]

\* Variant of the cache lookup that never answers from the cache.
NoCachedDecision(cache, key, t) == [ok |-> FALSE, err |-> NilErr]

\* The cache lookup of VerifyAccess: whether it answers, and with what error.
CachedDecision(cache, key, t) ==
  IF CacheHit(cache, key, t)
  THEN [ok |-> TRUE,
        err |-> IF ~cache[key].resp.allowed
                THEN ErrNotAllowed(cache[key].resp.reason) ELSE NilErr]
  ELSE [ok |-> FALSE, err |-> NilErr]

\* What the cache holds for key at time t, as an observer sees it.
EntryAt(cache, key, t) ==
  IF cache[key] = NoEntry THEN "none"
  ELSE IF t < cache[key].expires THEN "fresh" ELSE "expired"

\* VerifyAccess up to the first webhook attempt.
VerifyAccess(p, req) ==
  /\ auth[p].pc \in {"idle", "done"}
  /\ nVerify < MaxVerify
  /\ nVerify' = nVerify + 1
  /\ LET key == Marshal(req)
         start == [IdleAuth EXCEPT !.req = req,
                                   !.entry = EntryAt(authCache, key, now),
                                   !.cached = authCache[key].resp]
         d == CachedDecision(authCache, key, now)
     IN IF ~RequireAuth(req.method)
        THEN auth' = [auth EXCEPT ![p] = [start EXCEPT !.pc = "done"]]
        ELSE IF d.ok
        THEN auth' = [auth EXCEPT ![p] = [start EXCEPT !.pc = "done", !.err = d.err]]
        ELSE auth' = [auth EXCEPT ![p] = [start EXCEPT !.pc = "attempt"]]
  /\ UNCHANGED <<authCache, now, maxRetries, cachedBy>>
  /\ UNCHANGED <<ppVars, idVars, waitVars>>

\* One iteration of the loop up to the decision to retry.
WebhookAttempt(p, o) ==
  /\ auth[p].pc = "attempt"
  /\ LET r == webhookFn(o, auth[p].authResp)
         calls == auth[p].calls + 1
     IN IF shouldRetry(r.statusCode, r.err)
        THEN /\ auth' = [auth EXCEPT ![p].pc = "wait", ![p].calls = calls,
                                     ![p].nRetriable = auth[p].nRetriable + 1,
                                     ![p].last = o, ![p].authResp = r.authResp]
             /\ UNCHANGED <<authCache, cachedBy>>
        ELSE Return(p, IF r.err = ErrUnexpectedStatusCode
                       THEN UnexpectedStatus(r.statusCode) ELSE r.err,
                    r.authResp, calls, o)
  /\ UNCHANGED <<now, maxRetries, nVerify>>
  /\ UNCHANGED <<ppVars, idVars, waitVars>>

\* The wait, the increment and the loop test.  The statusCode of the timeout
\* error is the function's own variable (the field statusCode), declared with
\* its zero value; the loop body declares a statusCode of its own with := for
\* the result of webhookFn, so the function's variable is never assigned.
BackoffWait(p) ==
  /\ auth[p].pc = "wait"
  /\ \/ Return(p, Canceled, auth[p].authResp, auth[p].calls, auth[p].last)
     \/ IF LoopContinues(auth[p].retries + 1, maxRetries)
        THEN /\ auth' = [auth EXCEPT ![p].pc = "attempt",
                                     ![p].retries = auth[p].retries + 1]
             /\ UNCHANGED <<authCache, cachedBy>>
        ELSE Return(p, ErrWebhookTimeout(auth[p].statusCode), auth[p].authResp, auth[p].calls,
                    auth[p].last)
  /\ UNCHANGED <<now, maxRetries, nVerify>>
  /\ UNCHANGED <<ppVars, idVars, waitVars>>

Tick ==
  /\ now < MaxTime
  /\ now' = now + 1
  /\ UNCHANGED <<authCache, maxRetries, auth, nVerify, cachedBy>>
  /\ UNCHANGED <<ppVars, idVars, waitVars>>

\* ====================================================================
\* Fixed-width unsigned integers: little-endian sequences of 16-bit limbs
\* ====================================================================
Limb == 2 ^ 16

\* x + 1 modulo Limb ^ Len(x).
RECURSIVE AddOne(_)
AddOne(x) ==
  IF x = <<>> THEN <<>>
  ELSE IF Head(x) + 1 < Limb THEN <<Head(x) + 1>> \o Tail(x)
  ELSE <<0>> \o AddOne(Tail(x))

\* a < b for two unsigned integers of the same width.
RECURSIVE Less(_, _)
Less(a, b) ==
  IF a = <<>> THEN FALSE
  ELSE LET n == Len(a)
       IN IF a[n] # b[n] THEN a[n] < b[n]
          ELSE Less(SubSeq(a, 1, n - 1), SubSeq(b, 1, n - 1))

\* The uint64 of a number below Limb, the largest uint64 and the one before it.
U64(n) == <<n, 0, 0, 0>>
MaxUint64 == <<Limb - 1, Limb - 1, Limb - 1, Limb - 1>>
MaxUint64Less1 == <<Limb - 2, Limb - 1, Limb - 1, Limb - 1>>

\* The uint32 of a number below Limb and the largest uint32.
U32(n) == <<n, 0>>
MaxUint32 == <<Limb - 1, Limb - 1>>

\* ====================================================================
\* change.ID
\* ====================================================================
MaxLamport == 2

\* The client sequences the model starts from.
ClientSeqs == {U32(0), U32(1), MaxUint32}

\* The lamports the model starts from and passes to SyncLamport.
Lamports == {U64(n) : n \in 0..MaxLamport} \cup {MaxUint64Less1, MaxUint64}

NewID(clientSeq, lamport, actorID) ==
  [clientSeq |-> clientSeq, lamport |-> lamport, actorID |-> actorID]

NoID == NewID(<<>>, <<>>, -1)
NoLamport == <<>>

\* ID.Next.
IDNext(i) ==
  [clientSeq |-> AddOne(i.clientSeq), lamport |-> AddOne(i.lamport),
   actorID |-> i.actorID]

\* Variant of SyncLamport that compares with <= instead of <.
SyncLamportNonStrict(i, other) ==
  IF ~Less(other, i.lamport)
  THEN NewID(i.clientSeq, other, i.actorID)
  ELSE NewID(i.clientSeq, AddOne(i.lamport), i.actorID)

\* ID.SyncLamport.
SyncLamport(i, other) ==
  IF Less(i.lamport, other)
  THEN NewID(i.clientSeq, other, i.actorID)
  ELSE NewID(i.clientSeq, AddOne(i.lamport), i.actorID)

\* The owner of the ID makes a change: its ID becomes the next one.
NextChange ==
  /\ id.lamport \in Lamports
  /\ id.clientSeq \in ClientSeqs
  /\ id' = IDNext(id)
  /\ otherLamport' = NoLamport
  /\ syncedID' = NoID
  /\ UNCHANGED <<ppVars, authVars, waitVars>>

\* SyncLamport is called on the ID: a new ID is returned, the receiver is
\* not written.
CallSyncLamport(other) ==
  /\ otherLamport' = other
  /\ syncedID' = SyncLamport(id, other)
  /\ UNCHANGED id
  /\ UNCHANGED <<ppVars, authVars, waitVars>>

\* The caller replaces its ID by the one SyncLamport returned.
AdoptSyncedID ==
  /\ syncedID # NoID
  /\ syncedID.lamport \in Lamports
  /\ id' = syncedID
  /\ otherLamport' = NoLamport
  /\ syncedID' = NoID
  /\ UNCHANGED <<ppVars, authVars, waitVars>>

IDIdle ==
  /\ id = NewID(U32(0), U64(0), InitialActorID)
  /\ otherLamport = NoLamport
  /\ syncedID = NoID

IDInit ==
  /\ id \in {NewID(cs, l, a) : cs \in ClientSeqs, l \in Lamports, a \in Clients}
  /\ otherLamport = NoLamport
  /\ syncedID = NoID

\* ====================================================================
\* waitInterval: the backoff wait, in int64 nanoseconds (two's complement
\* in four limbs)
\* ====================================================================
MaxRetryIndex == 64

\* x * k modulo Limb ^ Len(x), for k small enough that a limb times k fits.
RECURSIVE MulCarry(_, _, _)
MulCarry(x, k, carry) ==
  IF x = <<>> THEN <<>>
  ELSE LET v == Head(x) * k + carry
       IN <<v % Limb>> \o MulCarry(Tail(x), k, v \div Limb)

MulSmall(x, k) == MulCarry(x, k, 0)

MinInt64 == <<0, 0, 0, 2 ^ 15>>
MaxInt64 == <<Limb - 1, Limb - 1, Limb - 1, 2 ^ 15 - 1>>

Negative(x) == x[4] >= 2 ^ 15

\* a < b for two int64.
SignedLess(a, b) ==
  IF Negative(a) # Negative(b) THEN Negative(a) ELSE Less(a, b)

\* A time.Duration of ms milliseconds, for ms below Limb.
Milliseconds(ms) == MulSmall(MulSmall(U64(ms), 1000), 1000)

\* math.Pow(2, float64(r)) is exactly 2^r; the conversion to int64 is exact
\* up to 2^62 and implementation-dependent beyond: the smallest int64 on
\* amd64, the largest on arm64.
DurationOfPow2(r) ==
  IF r <= 62
  THEN {[i \in 1..4 |-> IF i = (r \div 16) + 1 THEN 2 ^ (r % 16) ELSE 0]}
  ELSE {MinInt64, MaxInt64}

\* waitInterval: the intervals the call can return.  The product
\* * 100 * time.Millisecond wraps modulo 2^64.
waitInterval(r, maxWait) ==
  {IF SignedLess(maxWait, interval) THEN maxWait ELSE interval :
     interval \in {MulSmall(MulSmall(MulSmall(d, 100), 1000), 1000) :
                     d \in DurationOfPow2(r)}}

NoWait == <<>>

\* A retriable attempt of a call: the wait before the next one is computed,
\* then retries is incremented.
RetriableAttempt ==
  /\ waitRetries <= MaxRetryIndex
  /\ \E w \in waitInterval(waitRetries, maxWaitInterval) :
       waits' = [cur |-> w, prev |-> waits.cur]
  /\ waitRetries' = waitRetries + 1
  /\ UNCHANGED maxWaitInterval
  /\ UNCHANGED <<ppVars, authVars, idVars>>

\* Another VerifyAccess call starts its retry loop.
NewBackoff ==
  /\ waitRetries > 0
  /\ waitRetries' = 0
  /\ waits' = [cur |-> NoWait, prev |-> NoWait]
  /\ UNCHANGED maxWaitInterval
  /\ UNCHANGED <<ppVars, authVars, idVars>>

WaitIdle ==
  /\ waitRetries = 0
  /\ maxWaitInterval = Milliseconds(3000)
  /\ waits = [cur |-> NoWait, prev |-> NoWait]

WaitInit ==
  /\ waitRetries = 0
  /\ maxWaitInterval \in {Milliseconds(50), Milliseconds(3000), MaxInt64}
  /\ waits = [cur |-> NoWait, prev |-> NoWait]

AuthIdle ==
  /\ authCache = [k \in CacheKeys |-> NoEntry]
  /\ now = 0
  /\ auth = [p \in AuthProcs |-> IdleAuth]
  /\ nVerify = 0
  /\ cachedBy = [k \in CacheKeys |-> NoAccessRequest]

Init == PPInit /\ AuthIdle /\ maxRetries = 0 /\ IDIdle /\ WaitIdle

AuthInit ==
  PPInit /\ AuthIdle /\ maxRetries \in 0..MaxMaxRetries /\ IDIdle /\ WaitIdle

LamportInit == PPInit /\ AuthIdle /\ maxRetries = 0 /\ IDInit /\ WaitIdle

BackoffInit == PPInit /\ AuthIdle /\ maxRetries = 0 /\ IDIdle /\ WaitInit

Next ==
  \/ \E c \in Clients : AttachDocument(c)
  \/ \E c \in Clients : RemoveClient(c)
  \/ \E p \in Procs, c \in Clients : \E reqPack \in Requests(c) : Enter(p, c, reqPack)
  \/ \E p \in Procs : Replay(p)
  \/ \E p \in Procs : Store(p)
  \/ \E p \in Procs : Finish(p)
  \/ \E p \in Procs : TailTryLock(p)
  \/ \E p \in Procs : TailSnapshot(p)

Spec == Init /\ [][Next]_vars

\* The same program with the scheduling of the background goroutines: a tail
\* that holds the lock is run to its end (Publish and storeSnapshot return,
\* the deferred Unlock runs).
\* The tail reads of the request pack only whether it has changes, so the
\* clients send packs without changes and packs whose changes follow their
\* checkpoint in order.
InOrderRequests(c) ==
  {r \in Requests(c) :
     \A i \in 1..Len(r.changes) : r.changes[i].clientSeq = r.checkpoint.clientSeq + i}

TailNext ==
  \/ \E c \in Clients : AttachDocument(c)
  \/ \E p \in Procs, c \in Clients : \E reqPack \in InOrderRequests(c) : Enter(p, c, reqPack)
  \/ \E p \in Procs : Replay(p)
  \/ \E p \in Procs : Store(p)
  \/ \E p \in Procs : Finish(p)
  \/ \E p \in Procs : TailTryLock(p)
  \/ \E p \in Procs : TailSnapshot(p)

FairSpec == Init /\ [][TailNext]_vars /\ \A p \in Procs : WF_vars(TailSnapshot(p))

\* The same program with every client sending its calls one after the other:
\* a client starts a call only when it has no call on the synchronous path.
NoOverlap(c) == \A q \in Procs : call[q].client = c => ~InFlight(q)

SerialEnter(p, c, reqPack) == NoOverlap(c) /\ Enter(p, c, reqPack)

SerialReplay(p) == NoOverlap(call[p].client) /\ Replay(p)

NextSerial ==
  \/ \E c \in Clients : AttachDocument(c)
  \/ \E c \in Clients : RemoveClient(c)
  \/ \E p \in Procs, c \in Clients : \E reqPack \in Requests(c) : SerialEnter(p, c, reqPack)
  \/ \E p \in Procs : SerialReplay(p)
  \/ \E p \in Procs : Store(p)
  \/ \E p \in Procs : Finish(p)
  \/ \E p \in Procs : TailTryLock(p)
  \/ \E p \in Procs : TailSnapshot(p)

SerialSpec == Init /\ [][NextSerial]_vars

AuthNext ==
  \/ \E p \in AuthProcs, req \in AccessRequests : VerifyAccess(p, req)
  \/ \E p \in AuthProcs, o \in Outcomes : WebhookAttempt(p, o)
  \/ \E p \in AuthProcs : BackoffWait(p)
  \/ Tick

AuthSpec == AuthInit /\ [][AuthNext]_vars

LamportNext ==
  \/ NextChange
  \/ \E other \in Lamports : CallSyncLamport(other)
  \/ AdoptSyncedID

LamportSpec == LamportInit /\ [][LamportNext]_vars

BackoffNext ==
  \/ RetriableAttempt
  \/ NewBackoff

BackoffSpec == BackoffInit /\ [][BackoffNext]_vars

\* ====================================================================
\* Claims
\* ====================================================================
\* The client sequences of client c's persisted changes, in serverSeq order.
ClientSeqsOf(c) ==
  LET idx == {i \in 1..Len(dbChanges) : dbChanges[i].actor = c}
      RECURSIVE collect(_)
      collect(i) == IF i > Len(dbChanges) THEN <<>>
                    ELSE IF i \in idx THEN <<dbChanges[i].clientSeq>> \o collect(i + 1)
                    ELSE collect(i + 1)
  IN collect(1)

\* C1: for every client, the clientSeq values of its persisted changes, taken
\* in serverSeq order, are 1, 2, 3, ...: strictly increasing, with no gap, and
\* none persisted twice.
C1_AcceptedClientSeqContiguous ==
  \A c \in Clients :
    LET seqs == ClientSeqsOf(c) IN \A i \in 1..Len(seqs) : seqs[i] = i

\* C2: the serverSeq values of the persisted changes are exactly
\* 1..docInfo.serverSeq, in persistence order, and two calls that captured the
\* same initialServerSeq never both succeed in CreateChangeInfos.
C2_ServerSeqDensity ==
  /\ Len(dbChanges) = dbServerSeq
  /\ \A i \in 1..Len(dbChanges) : dbChanges[i].serverSeq = i
  /\ \A p, q \in Procs :
       (p # q /\ call[p].created /\ call[q].created)
         => call[p].initialServerSeq # call[q].initialServerSeq

\* Two calls captured the same initialServerSeq: one persisted its changes,
\* the other was rejected by the storage's optimistic check.
C2_Witness ==
  \E p, q \in Procs :
    /\ call[p].created
    /\ call[q].error = "conflict"
    /\ dbServerSeq >= 2

\* A returned call that replayed the request pack of the client's last
\* successful call.
IsReplay(p) == call[p].pc = "returned" /\ call[p].replayOf # NoCheckpoint

\* C3 as stated: a replayed request pack persists no new change, leaves
\* docInfo.serverSeq unchanged and returns the response checkpoint of the
\* first call.
C3_ReplaySameCheckpoint ==
  \A p \in Procs :
    IsReplay(p) =>
      /\ call[p].pushedChanges = <<>>
      /\ call[p].docServerSeq = call[p].initialServerSeq
      /\ call[p].response.checkpoint = call[p].replayOf

\* C3 amended: a replayed request pack persists no new change and leaves
\* docInfo.serverSeq unchanged; its response checkpoint has the clientSeq of
\* the first call's and the serverSeq of docInfo at the entry of the replay,
\* which is the first call's when no change was persisted in between.
C3_ReplayIdempotent ==
  \A p \in Procs :
    IsReplay(p) =>
      /\ call[p].pushedChanges = <<>>
      /\ call[p].docServerSeq = call[p].initialServerSeq
      /\ ~call[p].created
      /\ call[p].response.checkpoint.clientSeq = call[p].replayOf.clientSeq
      /\ call[p].response.checkpoint.serverSeq = call[p].initialServerSeq
      /\ call[p].response.checkpoint.serverSeq >= call[p].replayOf.serverSeq
      /\ (call[p].initialServerSeq = call[p].replayOf.serverSeq
            => call[p].response.checkpoint = call[p].replayOf)

\* A replay of a pack that carried changes has returned.
C3_Witness ==
  \E p \in Procs :
    /\ IsReplay(p)
    /\ Len(call[p].request.changes) > 0
    /\ call[p].replayOf.clientSeq > 0
    /\ call[p].response.checkpoint = call[p].replayOf

Locked == {p \in Procs : call[p].tail = "locked"}

\* C5: at most one tail holds snapshot-<documentKey> at a time, and a tail
\* whose TryLock failed has published no event and stored no snapshot.
C5_SnapshotSingleton ==
  /\ Cardinality(Locked) <= 1
  /\ snapshotLock <=> Locked # {}
  /\ \A p \in Procs :
       call[p].tail = "skipped" => ~call[p].published /\ call[p].snapshot = "none"

\* One tail holds the lock while the tail of another call found it busy.
C5_Witness ==
  \E p, q \in Procs : call[p].tail = "locked" /\ call[q].tail = "skipped"

C7_CacheByOutcome ==
  [][\A p \in AuthProcs :
       (auth[p].pc \in {"attempt", "wait"} /\ auth'[p].pc = "done") =>
         LET key == Marshal(auth[p].req)
             e == auth'[p].err
         IN /\ e.kind = "nil" =>
                 authCache' = [authCache EXCEPT ![key] =
                                 [resp |-> AllowResp, expires |-> now + AuthTTL]]
            /\ e.kind = "ErrNotAllowed" =>
                 authCache' = [authCache EXCEPT ![key] =
                                 [resp |-> [allowed |-> FALSE, reason |-> e.reason],
                                  expires |-> now + UnauthTTL]]
            /\ e.kind \notin {"nil", "ErrNotAllowed"} => authCache' = authCache
            /\ EntryAt(authCache', key, now) = "fresh"
                 <=> e.kind \in {"nil", "ErrNotAllowed"}]_vars

\* A call that missed the cache ended with NotAllowed and its denial is cached.
C7_Witness ==
  \E p \in AuthProcs :
    /\ auth[p].pc = "done" /\ auth[p].calls > 0
    /\ auth[p].err.kind = "ErrNotAllowed"
    /\ authCache[Marshal(auth[p].req)] = [resp |-> DenyResp, expires |-> now + UnauthTTL]

\* --------------------------------------------------------------------
\* C8 - Auth cache TTL: a call that finds an unexpired entry for its
\* fingerprint ends at once without a webhook call, with NotAllowed and the
\* stored reason for a denial and with success for an allow; a call that
\* finds an expired entry calls the webhook before it ends.
C8_CacheTTL ==
  \A p \in AuthProcs :
    (auth[p].pc # "idle" /\ RequireAuth(auth[p].req.method)) =>
      /\ auth[p].entry = "fresh" =>
           /\ auth[p].pc = "done"
           /\ auth[p].calls = 0
           /\ auth[p].err = IF auth[p].cached.allowed THEN NilErr
                            ELSE ErrNotAllowed(auth[p].cached.reason)
      /\ auth[p].entry # "fresh" =>
           (auth[p].pc = "done" => auth[p].calls >= 1)

\* A call answered from an unexpired cached denial.
C8_Witness ==
  \E p \in AuthProcs :
    /\ auth[p].pc = "done" /\ auth[p].entry = "fresh"
    /\ ~auth[p].cached.allowed /\ auth[p].cached.reason = "no"
    /\ auth[p].err = ErrNotAllowed("no")

\* --------------------------------------------------------------------
\* C9 - Retry bound as stated: a call invokes the webhook at most
\* maxRetries + 1 times, and exactly maxRetries + 1 times only when every
\* attempt was retriable.
C9_RetryBoundAllRetriable ==
  \A p \in AuthProcs :
    /\ auth[p].calls <= maxRetries + 1
    /\ (auth[p].pc = "done" /\ auth[p].calls = maxRetries + 1) =>
         auth[p].nRetriable = auth[p].calls

\* C9 - Retry bound: a call invokes the webhook at most maxRetries + 1
\* times; every attempt before the last was retriable, so it reaches
\* maxRetries + 1 attempts only when the first maxRetries were retriable; it
\* ends with WebhookTimeout exactly when all maxRetries + 1 attempts were
\* retriable and the context was not canceled.
C9_RetryBound ==
  \A p \in AuthProcs :
    /\ auth[p].calls <= maxRetries + 1
    /\ auth[p].nRetriable >= auth[p].calls - 1
    /\ auth[p].pc = "done" =>
         (auth[p].err.kind = "ErrWebhookTimeout"
            <=> /\ auth[p].calls = maxRetries + 1
                /\ auth[p].nRetriable = auth[p].calls
                /\ auth[p].err.kind # "canceled")

\* A call made maxRetries + 1 = 3 attempts and the last one was not retriable.
C9_Witness ==
  \E p \in AuthProcs :
    /\ maxRetries = 2
    /\ auth[p].pc = "done" /\ auth[p].calls = 3
    /\ auth[p].nRetriable = 2
    /\ auth[p].err = NilErr

\* --------------------------------------------------------------------
\* The retriable outcomes as the claim lists them, and as the code has them.
StatedRetriable(o) == o.errno = "ECONNRESET" \/ o.status \in {500, 502, 503, 504, 429}

CodeRetriable(o) == o.errno = "ECONNRESET" \/ o.status \in {500, 503, 504, 429}

\* The call went on after its latest attempt: it waits, tries again, or
\* ended in the wait by exhaustion or cancellation.
Continued(p) ==
  \/ auth[p].pc \in {"wait", "attempt"}
  \/ auth[p].pc = "done" /\ auth[p].err.kind \in {"ErrWebhookTimeout", "canceled"}

\* The call ended at once with the result of the outcome o.
EndedWith(p, o) ==
  /\ auth[p].pc = "done"
  /\ IF o.errno # "none" THEN auth[p].err.kind \in {"errno", "transport"}
     ELSE IF o.status # 200 THEN auth[p].err = UnexpectedStatus(o.status)
     ELSE IF o.body = "allow" THEN auth[p].err = NilErr
     ELSE IF o.body = "deny" THEN auth[p].err = ErrNotAllowed("no")
     ELSE auth[p].err.kind = "parse"

RetriableSet(retriable(_)) ==
  \A p \in AuthProcs :
    auth[p].calls >= 1 =>
      /\ Continued(p) <=> retriable(auth[p].last)
      /\ ~Continued(p) => EndedWith(p, auth[p].last)

\* C10 - Retriable set as stated: an attempt is followed by the wait for
\* another attempt exactly when it hit a connection reset or a status among
\* 500, 502, 503, 504, 429; any other outcome ends the call at once.
C10_RetriableSetWith502 == RetriableSet(StatedRetriable)

\* C10 - Retriable set: an attempt is followed by the wait for another
\* attempt exactly when it hit a connection reset or a status among 500,
\* 503, 504, 429; any other transport error or non-200 status (502 included)
\* ends the call at once with that error, and a 200 with a parseable body
\* ends it with the body's decision.
C10_RetriableSet == RetriableSet(CodeRetriable)

\* A 502 ended a call at once with the unexpected-status error.
C10_Witness ==
  \E p \in AuthProcs :
    /\ auth[p].pc = "done" /\ auth[p].calls = 1
    /\ auth[p].last = Outcome("none", 502, "none")
    /\ auth[p].err = UnexpectedStatus(502)

\* --------------------------------------------------------------------
\* C11 - Timeout error carries the last status: a call that ends with
\* WebhookTimeout made maxRetries + 1 attempts, all retriable, and the status
\* code in its error is the HTTP status of the final attempt.
C11_TimeoutCarriesLastStatus ==
  \A p \in AuthProcs :
    (auth[p].pc = "done" /\ auth[p].err.kind = "ErrWebhookTimeout") =>
      /\ auth[p].calls = maxRetries + 1
      /\ auth[p].nRetriable = auth[p].calls
      /\ auth[p].err.code = auth[p].last.status

\* --------------------------------------------------------------------
\* The ID r returned by SyncLamport(other) on the ID i obeys the Lamport law:
\* its lamport is at least both lamports and above i's when other is not
\* (other when other is above, the successor of i's otherwise); clientSeq and
\* actorID are i's.
LamportLaw(i, other, r) ==
  /\ ~Less(r.lamport, i.lamport)
  /\ ~Less(r.lamport, other)
  /\ ~Less(i.lamport, other) => Less(i.lamport, r.lamport)
  /\ r.lamport = IF Less(i.lamport, other) THEN other ELSE AddOne(i.lamport)
  /\ r.clientSeq = i.clientSeq
  /\ r.actorID = i.actorID

\* C12 as stated - the Lamport law holds for every lamport of the receiver
\* and every other lamport in the unsigned 64-bit range.
C12_LamportLaw ==
  syncedID # NoID => LamportLaw(id, otherLamport, syncedID)

\* C12 amended - the Lamport law holds whenever the receiver's lamport is
\* below 2^64 - 1 or the other lamport is above it; for a receiver at
\* 2^64 - 1 the returned lamport wraps to 0, with clientSeq and actorID
\* unchanged.  The law is stated of the receiver as it is after the call.
C12_LamportLawBelowMax ==
  syncedID # NoID =>
    IF id.lamport # MaxUint64 \/ Less(id.lamport, otherLamport)
    THEN LamportLaw(id, otherLamport, syncedID)
    ELSE /\ syncedID.lamport = U64(0)
         /\ syncedID.clientSeq = id.clientSeq
         /\ syncedID.actorID = id.actorID

\* SyncLamport was called with a lamport equal to the receiver's and
\* returned the successor.
C12_Witness ==
  /\ syncedID # NoID
  /\ otherLamport = id.lamport
  /\ id.lamport = U64(1)
  /\ syncedID.lamport = U64(2)

\* --------------------------------------------------------------------
\* A call past its entry whose request pack has no changes and whose
\* checkpoint is (the stored clientSeq of the client, docInfo.serverSeq).
EmptyPull(p) ==
  /\ call[p].pc \in {"store", "client", "returned"}
  /\ call[p].request.changes = <<>>
  /\ call[p].request.checkpoint =
       Checkpoint(call[p].pushedCP.clientSeq, call[p].initialServerSeq)

StorageWrites ==
  {"CreateChangeInfos", "UpdateClientInfoAfterPushPull", "UpdateAndFindMinSyncedTicket"}

\* The response of an empty pull: no changes and the request's checkpoint.
EmptyResponse(p) ==
  /\ call[p].response.kind = "changes"
  /\ call[p].response.from = call[p].response.to
  /\ call[p].response.checkpoint = call[p].request.checkpoint

\* C13 as stated - an empty pull returns no changes and the same checkpoint,
\* performs no storage write and starts no asynchronous task.
C13_EmptyPullNoWrites ==
  \A p \in Procs :
    EmptyPull(p) =>
      /\ EmptyResponse(p)
      /\ \A i \in 1..Len(call[p].steps) : call[p].steps[i] \notin StorageWrites
      /\ call[p].tail = "none"

\* C13 amended - an empty pull returns no changes and the same checkpoint,
\* never calls CreateChangeInfos and starts no asynchronous task; when it
\* returns it has called UpdateClientInfoAfterPushPull and
\* UpdateAndFindMinSyncedTicket, in this order, and nothing else on the
\* storage.
C13_EmptyPullNoChangeWrites ==
  \A p \in Procs :
    EmptyPull(p) =>
      /\ EmptyResponse(p)
      /\ ~call[p].created
      /\ \A i \in 1..Len(call[p].steps) : call[p].steps[i] # "CreateChangeInfos"
      /\ call[p].tail = "none"
      /\ call[p].pc = "returned" =>
           call[p].steps = EntrySteps \o FinishSteps \o <<"return">>

\* An empty pull of a document that has changes has returned.
C13_Witness ==
  \E p \in Procs :
    /\ EmptyPull(p)
    /\ call[p].pc = "returned"
    /\ call[p].initialServerSeq > 0
    /\ dbSynced[call[p].client].serverSeq = call[p].initialServerSeq

\* --------------------------------------------------------------------
\* C14 - Cache key exactness: a VerifyAccess call that is answered without
\* asking the webhook gets the decision that a call with the same token,
\* method and attributes stored, and two requests that differ in token,
\* method or any attribute key or verb have different cache keys.
C14_CacheKeyExact ==
  /\ \A p \in AuthProcs :
       (auth[p].pc = "done" /\ RequireAuth(auth[p].req.method) /\ auth[p].calls = 0) =>
         /\ cachedBy[Marshal(auth[p].req)] = auth[p].req
         /\ auth[p].cached = authCache[Marshal(auth[p].req)].resp
  /\ \A k \in CacheKeys :
       authCache[k] # NoEntry =>
         \A r \in AccessRequests : Marshal(r) = k => r = cachedBy[k]

\* A call answered from a cached allow while the request that differs from it
\* only in the verb (ReadWrite instead of Read) has no cache entry.
C14_Witness ==
  \E p \in AuthProcs :
    /\ auth[p].pc = "done" /\ auth[p].entry = "fresh" /\ auth[p].calls = 0
    /\ auth[p].cached.allowed
    /\ auth[p].req = AccessRequest("t1", "PushPull", Pack("d1", FALSE))
    /\ cachedBy[Marshal(auth[p].req)] = auth[p].req
    /\ authCache[Marshal(AccessRequest("t1", "PushPull", Pack("d1", TRUE)))] = NoEntry

\* --------------------------------------------------------------------
\* The steps of a successful PushPull in the order of the code.
SuccessSteps(p) ==
  EntrySteps \o
  (IF Len(call[p].pushedChanges) > 0 THEN <<"CreateChangeInfos">> ELSE <<>>) \o
  FinishSteps \o
  (IF Len(call[p].request.changes) > 0 THEN <<"AttachGoroutine">> ELSE <<>>) \o
  <<"return">>

\* C15 - Persistence order: a PushPull that returned a response has set the
\* in-memory checkpoint to the response's, then called CreateChangeInfos
\* exactly once, keyed by the initialServerSeq captured at entry, iff the
\* pushed list is non-empty, then UpdateClientInfoAfterPushPull, then
\* UpdateAndFindMinSyncedTicket whose result is in the response, and only
\* then started the asynchronous tail and returned; no tail exists for a call
\* that did not get that far.
C15_PersistenceOrder ==
  \A p \in Procs :
    /\ call[p].pc = "returned" =>
         /\ call[p].steps = SuccessSteps(p)
         /\ call[p].checkpoint = call[p].response.checkpoint
         /\ call[p].created <=> Len(call[p].pushedChanges) > 0
         /\ call[p].created =>
              \A i \in 1..Len(call[p].pushedChanges) :
                /\ call[p].initialServerSeq + i <= Len(dbChanges)
                /\ dbChanges[call[p].initialServerSeq + i] = call[p].pushedChanges[i]
         /\ call[p].response.minSyncedTicket # NoTicket
    /\ call[p].pc = "client" =>
         /\ call[p].created <=> Len(call[p].pushedChanges) > 0
         /\ call[p].response.minSyncedTicket = NoTicket
    /\ call[p].tail # "none" =>
         /\ call[p].pc = "returned"
         /\ Len(call[p].request.changes) > 0

\* A call that pushed a change onto a document that already had one has
\* returned and its tail has been started.
C15_Witness ==
  \E p \in Procs :
    /\ call[p].pc = "returned"
    /\ call[p].initialServerSeq = 1
    /\ Len(call[p].pushedChanges) = 1
    /\ dbServerSeq = 2
    /\ call[p].tail = "start"
    /\ call[p].steps = <<"pushChanges", "pullPack", "UpdateCheckpoint",
                         "CreateChangeInfos", "UpdateClientInfoAfterPushPull",
                         "UpdateAndFindMinSyncedTicket", "AttachGoroutine", "return">>

\* --------------------------------------------------------------------
\* The steps of the synchronous path that can fail, in the order of the code.
SyncSteps == EntrySteps \o <<"CreateChangeInfos">> \o FinishSteps

\* s without its CreateChangeInfos entries.
RECURSIVE WithoutCreate(_)
WithoutCreate(s) ==
  IF s = <<>> THEN <<>>
  ELSE IF Head(s) = "CreateChangeInfos" THEN WithoutCreate(Tail(s))
  ELSE <<Head(s)>> \o WithoutCreate(Tail(s))

IsPrefix(s, t) == Len(s) <= Len(t) /\ s = SubSeq(t, 1, Len(s))

\* C16 - Sync-path failure stops the call: a PushPull in which push, pull,
\* the checkpoint update, CreateChangeInfos, UpdateClientInfoAfterPushPull or
\* UpdateAndFindMinSyncedTicket failed returns an error and no response
\* pack, has executed no step after the failing one, and has no asynchronous
\* tail: nothing is published, no snapshot lock is taken, no snapshot stored.
C16_FailureStopsCall ==
  \A p \in Procs :
    call[p].pc = "failed" =>
      /\ call[p].error # "none"
      /\ call[p].response = NoResponse
      /\ call[p].steps # <<>>
      /\ \E n \in 1..Len(SyncSteps) : call[p].steps[Len(call[p].steps)] = SyncSteps[n]
      /\ IsPrefix(call[p].steps, SyncSteps)
           \/ IsPrefix(call[p].steps, WithoutCreate(SyncSteps))
      /\ \A i \in 1..Len(call[p].steps) :
           call[p].steps[i] \notin {"AttachGoroutine", "return"}
      /\ call[p].tail = "none"
      /\ ~call[p].published
      /\ call[p].snapshot = "none"

\* One call was rejected by CreateChangeInfos because another writer had
\* advanced the document, and that writer's call failed in
\* UpdateAndFindMinSyncedTicket.
C16_Witness ==
  \E p, q \in Procs :
    /\ call[p].pc = "failed" /\ call[p].error = "conflict"
    /\ call[p].steps = EntrySteps \o <<"CreateChangeInfos">>
    /\ call[q].pc = "failed" /\ call[q].error = "UpdateAndFindMinSyncedTicket"
    /\ call[q].steps = SyncSteps
    /\ ~snapshotLock

\* --------------------------------------------------------------------
\* C17 - Synced position never runs ahead of the client's acknowledgement:
\* the serverSeq recorded in a client's SyncedSeq is never greater than the
\* largest serverSeq that client has sent in a request checkpoint, and a call
\* that returned recorded it at the serverSeq of its own request checkpoint
\* at the latest.
C17_SyncedNotAhead ==
  /\ \A c \in Clients :
       dbSynced[c] # NoSynced => dbSynced[c].serverSeq <= sentServerSeq[c]
  /\ \A p \in Procs :
       call[p].pc = "returned" =>
         /\ dbSynced[call[p].client] # NoSynced
         /\ call[p].request.checkpoint.serverSeq <= sentServerSeq[call[p].client]

\* A call pushed a change, so that its response checkpoint is ahead of its
\* request checkpoint, and was then sent again: the SyncedSeq of the client
\* is still at the request's serverSeq, behind what the storage holds.
C17_Witness ==
  \E p \in Procs :
    /\ call[p].pc = "returned"
    /\ call[p].replayOf # NoCheckpoint
    /\ call[p].replayOf.serverSeq > call[p].request.checkpoint.serverSeq
    /\ dbSynced[call[p].client].serverSeq = call[p].request.checkpoint.serverSeq
    /\ dbSynced[call[p].client].serverSeq < dbClients[call[p].client].checkpoint.serverSeq

\* --------------------------------------------------------------------
\* The position of step in s, 0 when it is absent.
IndexOf(s, step) ==
  IF \E i \in 1..Len(s) : s[i] = step
  THEN CHOOSE i \in 1..Len(s) : s[i] = step /\ \A j \in 1..(i - 1) : s[j] # step
  ELSE 0

\* C19 - Event after persistence: a call that published a
\* DocumentsChangedEvent had, before its tail was attached, persisted its
\* pushed changes with CreateChangeInfos and written its client info and
\* SyncedSeq; a call whose request pack has no changes publishes no event.
C19_EventAfterPersistence ==
  \A p \in Procs :
    /\ call[p].published =>
         /\ Len(call[p].request.changes) > 0
         /\ call[p].tail \in {"locked", "unlocked"}
         /\ IndexOf(call[p].steps, "AttachGoroutine") > 0
         /\ IndexOf(call[p].steps, "UpdateClientInfoAfterPushPull") > 0
         /\ IndexOf(call[p].steps, "UpdateClientInfoAfterPushPull")
              < IndexOf(call[p].steps, "UpdateAndFindMinSyncedTicket")
         /\ IndexOf(call[p].steps, "UpdateAndFindMinSyncedTicket")
              < IndexOf(call[p].steps, "AttachGoroutine")
         /\ dbSynced[call[p].client] # NoSynced
         /\ Len(call[p].pushedChanges) > 0 =>
              /\ call[p].created
              /\ 0 < IndexOf(call[p].steps, "CreateChangeInfos")
              /\ IndexOf(call[p].steps, "CreateChangeInfos")
                   < IndexOf(call[p].steps, "UpdateClientInfoAfterPushPull")
              /\ \A i \in 1..Len(call[p].pushedChanges) :
                   /\ call[p].initialServerSeq + i <= Len(dbChanges)
                   /\ dbChanges[call[p].initialServerSeq + i] = call[p].pushedChanges[i]
    /\ (call[p].pc # "idle" /\ call[p].request.changes = <<>>) =>
         ~call[p].published /\ call[p].tail = "none"

\* One call has published the event for a change it persisted while a call
\* without changes has returned and published nothing.
C19_Witness ==
  \E p, q \in Procs :
    /\ call[p].published /\ call[p].created
    /\ Len(dbChanges) > 0
    /\ call[q].pc = "returned" /\ call[q].request.changes = <<>>
    /\ ~call[q].published

\* --------------------------------------------------------------------
\* C18 - Snapshot lock release: a tail that acquired the snapshot lock with
\* TryLock eventually calls Unlock on it, exactly once, whether storeSnapshot
\* succeeded or failed; a tail that ended at ActorIDFromHex, NewLocker or a
\* failed TryLock never calls Unlock; and whenever no tail is between its
\* TryLock and its Unlock the lock is free.
C18_LockRelease ==
  /\ [](\A p \in Procs :
          /\ call[p].tail \in {"none", "start", "skipped"} => call[p].unlocks = 0
          /\ call[p].tail = "skipped" => call[p].exit \in TailExits
          /\ call[p].tail = "locked" => call[p].unlocks = 0 /\ snapshotLock
          /\ call[p].tail = "unlocked" =>
               call[p].unlocks = 1 /\ call[p].snapshot \in {"stored", "failed"})
  /\ []((\A p \in Procs : call[p].tail # "locked") => ~snapshotLock)
  /\ \A p \in Procs :
       (call[p].tail = "locked") ~> (call[p].tail = "unlocked" /\ call[p].unlocks = 1)

\* One tail released the lock after storeSnapshot failed, another found the
\* lock busy and ended at TryLock, and the lock is free.
C18_Witness ==
  \E p, q \in Procs :
    /\ call[p].tail = "unlocked" /\ call[p].snapshot = "failed" /\ call[p].unlocks = 1
    /\ call[q].tail = "skipped" /\ call[q].exit = "TryLock" /\ call[q].unlocks = 0
    /\ ~snapshotLock

\* --------------------------------------------------------------------
\* 2^r * x without wrapping, for x of any width.
RECURSIVE Doubled(_, _)
Doubled(x, r) == IF r = 0 THEN x ELSE Doubled(MulSmall(x, 2), r - 1)

\* min(maxWait, 2^r * 100 ms) over the integers: the product is formed in
\* eight limbs, where it cannot wrap for the retry indexes of the model.
ExactWait(r, maxWait) ==
  LET product == Doubled(Milliseconds(100) \o <<0, 0, 0, 0>>, r)
  IN IF Less(maxWait \o <<0, 0, 0, 0>>, product) THEN maxWait
     ELSE SubSeq(product, 1, 4)

\* C20 - Backoff wait formula: the wait inserted after retriable attempt r
\* equals min(maxWaitInterval, 2^r * 100 ms); it is never negative, never
\* exceeds maxWaitInterval and is not below the wait of the attempt before.
C20_WaitFormula ==
  waits.cur # NoWait =>
    /\ waits.cur = ExactWait(waitRetries - 1, maxWaitInterval)
    /\ ~Negative(waits.cur)
    /\ ~SignedLess(maxWaitInterval, waits.cur)
    /\ waits.prev # NoWait => ~SignedLess(waits.cur, waits.prev)

====
